---- MODULE Spec2Model ----
(***************************************************************************)
(* gitlab-autoscaler: the reconciliation engine.                           *)
(*                                                                         *)
(* One tick (core.Run) collects the cluster state from GitLab              *)
(* (gitlab.CalculateClusterState), then Orchestrator.ScaleASGs starts one  *)
(* worker (Orchestrator.scaleASG) per configured ASG.  A worker reads the  *)
(* ASG's capacity from the provider, adds the allocated count to the       *)
(* shared total under the mutex, runs the scale-up block and then the      *)
(* scale-down block, each of which may call Provider.UpdateASGCapacity.    *)
(* The cloud is the environment: it holds every ASG's sizes and moves the  *)
(* number of allocated instances toward the desired capacity.              *)
(***************************************************************************)
EXTENDS Integers, Sequences, FiniteSets, TLC

\* ------------------------------------------------------------------ bounds

\* Largest instance count, desired capacity and max-asg-capacity explored.
MaxSize == 2

\* Largest number of jobs one project reports per scope (pending, running).
MaxJobs == 1

\* Largest number of projects one call of CalculateClusterState is given.
MaxProjects == 3

\* The instances of the Auto Scaling group a provider call is followed on.
MaxInstances == 2

\* The provider calls followed on one group.
MaxCalls == 2

\* The seconds of wall-clock time the process of main is followed for.
MaxClock == 2

\* The goroutines that call AWSClients.Get concurrently.
MaxCallers == 3

\* The longest asg.Tags and the most jobs per tag Calculate is called with.
MaxTags == 2

MaxPerTag == 2

\* ------------------------------------------------------- program constants

\* providers/aws: const minCapacity = 0
minCapacity == 0

\* main: minInterval := time.Second, in milliseconds
minInterval == 1000

\* gitlab: const maxRetries = 5
maxRetries == 5

\* net/http: StatusOK, StatusTooManyRequests
StatusOK == 200

StatusTooManyRequests == 429

\* ------------------------------------------------------------- input sets

\* The job tags that occur.  "b" is a tag an ASG tagged <<"a">> does not serve.
Tags == {"a", "b"}

\* tag_list of one job: no tag, or one tag.
JobKinds == {<<>>, <<"a">>, <<"b">>}

\* asg.Tags as configured (a YAML list).
TagLists == {<<>>, <<"a">>, <<"a", "b">>}

SeqsUpTo(S, n) == UNION {[1..k -> S] : k \in 0..n}

\* The job list one jobs request returns.
JobLists == SeqsUpTo(JobKinds, MaxJobs)

\* config.Asg
AsgEntries(name) ==
    [Name : {name}, Tags : TagLists, MaxAsgCapacity : 0..MaxSize, ScaleToZero : BOOLEAN]

\* Configurations of two ASGs whose tag sets overlap in "a".
OverlapConfigs ==
    { << [Name |-> "asg1", Tags |-> <<"a">>, MaxAsgCapacity |-> MaxSize, ScaleToZero |-> TRUE],
         [Name |-> "asg2", Tags |-> <<"a", "b">>, MaxAsgCapacity |-> MaxSize, ScaleToZero |-> FALSE] >> }

\* cfg.Providers[*].AsgNames flattened (allAsgs in ScaleASGs): every
\* configuration of one ASG, and the overlapping pairs.
Configs == { <<e>> : e \in AsgEntries("asg1") } \cup OverlapConfigs

VARIABLES
    cfg,            \* allAsgs: the configured ASGs, in configuration order
    cloud,          \* the provider's side: per ASG name, its sizes and allocated instances
    phase,          \* "idle" between ticks, "scaling" while ScaleASGs runs
    lastRun,        \* how the last call of core.Run ended, "running" while it has not
    state,          \* gitlab.ClusterState of the running tick
    agg,            \* CalculateClusterState's local counters (not part of ClusterState)
    pc,             \* per worker: its position in scaleASG
    reading,        \* per worker: allocatedCount, desiredCapacity as read
    totalCapacity,  \* ScaleASGs' shared accumulator, guarded by mu
    writes,         \* per worker: the UpdateASGCapacity calls it issued this tick
    tickC,          \* ticker.C of main: a channel of capacity 1
    fetch,          \* one call of FetchProjects / FetchJobsCount and the server it talks to
    collect,        \* one call of CalculateClusterState over several projects
    aws,            \* one Auto Scaling group as the AWS API holds it, and an AWSClient's calls
    sig,            \* main: the signal goroutine, the installed configuration, the Run loop
    calc,           \* one call of TagBasedCalculator.Calculate
    reg             \* the AWSClients registry and the callers of its Get

vars == <<cfg, cloud, phase, lastRun, state, agg, pc, reading, totalCapacity, writes,
          tickC, fetch, collect, aws, sig, calc, reg>>

Workers == 1..Len(cfg)

\* ------------------------------------------------- gitlab/client.go (collector)

\* extractTags: the tag lists of all jobs, concatenated.
RECURSIVE extractTags(_)
extractTags(jobs) ==
    IF jobs = <<>> THEN <<>> ELSE Head(jobs) \o extractTags(Tail(jobs))

\* What one project worker of CalculateClusterState sends on the results
\* channel, given the two job lists and whether each request failed.
ProjectResult(pendingJobs, runningJobs, pendingErr, runningErr) ==
    IF pendingErr
    THEN [pending |-> 0, running |-> 0,
          pendingTags |-> <<>>, runningTags |-> <<>>, err |-> TRUE]
    ELSE IF runningErr
    THEN [pending |-> Len(pendingJobs), running |-> 0,
          pendingTags |-> <<>>, runningTags |-> <<>>, err |-> TRUE]
    ELSE [pending |-> Len(pendingJobs), running |-> Len(runningJobs),
          pendingTags |-> extractTags(pendingJobs),
          runningTags |-> extractTags(runningJobs), err |-> FALSE]

\* The local counters of CalculateClusterState before the first result.
EmptyAgg ==
    [totalPending |-> 0, totalRunning |-> 0,
     totalPendingWithoutTags |-> 0, totalRunningWithoutTags |-> 0,
     pendingJobsWithTags |-> [t \in Tags |-> 0],
     runningJobsWithTags |-> [t \in Tags |-> 0],
     errs |-> 0]

\* Mutant: a tag is marked as seen instead of counted.
RECURSIVE CountTags_Marks(_, _)
CountTags_Marks(m, tags) ==
    IF tags = <<>> THEN m
    ELSE CountTags_Marks([m EXCEPT ![Head(tags)] = 1], Tail(tags))

\* for _, tag := range tags { m[tag]++ }
RECURSIVE CountTags(_, _)
CountTags(m, tags) ==
    IF tags = <<>> THEN m
    ELSE CountTags([m EXCEPT ![Head(tags)] = @ + 1], Tail(tags))

\* Mutant: the result of a failed project is counted like any other.
AggregateOne_CountsFailed(acc, r) ==
    [acc EXCEPT
        !.totalPending = @ + r.pending,
        !.totalRunning = @ + r.running,
        !.totalPendingWithoutTags =
            IF Len(r.pendingTags) = 0 THEN @ + r.pending ELSE @,
        !.totalRunningWithoutTags =
            IF Len(r.runningTags) = 0 THEN @ + r.running ELSE @,
        !.pendingJobsWithTags = CountTags(@, r.pendingTags),
        !.runningJobsWithTags = CountTags(@, r.runningTags)]

\* One iteration of `for r := range results`.
AggregateOne(acc, r) ==
    IF r.err
    THEN [acc EXCEPT !.errs = @ + 1]
    ELSE [acc EXCEPT
            !.totalPending = @ + r.pending,
            !.totalRunning = @ + r.running,
            !.totalPendingWithoutTags =
                IF Len(r.pendingTags) = 0 THEN @ + r.pending ELSE @,
            !.totalRunningWithoutTags =
                IF Len(r.runningTags) = 0 THEN @ + r.running ELSE @,
            !.pendingJobsWithTags = CountTags(@, r.pendingTags),
            !.runningJobsWithTags = CountTags(@, r.runningTags)]

RECURSIVE AggregateAll(_, _)
AggregateAll(acc, results) ==
    IF results = <<>> THEN acc
    ELSE AggregateAll(AggregateOne(acc, Head(results)), Tail(results))

\* The ClusterState CalculateClusterState returns for the local counters.
ClusterStateOf(acc) ==
    [TotalPendingJobs |-> acc.totalPending,
     TotalRunningJobs |-> acc.totalRunning,
     PendingJobsWithTags |-> acc.pendingJobsWithTags,
     RunningJobsWithTags |-> acc.runningJobsWithTags,
     TotalCapacity |-> acc.totalPending + acc.totalRunning]

CalculateClusterState(results) == ClusterStateOf(AggregateAll(EmptyAgg, results))

\* --------------------------------------------- core/orchestrator.go (scaleASG)

\* for _, tag := range asg.Tags { if count > 0 { found = true; break } }
AnyTagCounted(tags, m) == \E k \in 1..Len(tags) : m[tags[k]] > 0

\* for _, tag := range asg.Tags { sum += m[tag] }
RECURSIVE SumOverTags(_, _)
SumOverTags(tags, m) ==
    IF tags = <<>> THEN 0 ELSE m[Head(tags)] + SumOverTags(Tail(tags), m)

totalJobs(st) == st.TotalPendingJobs + st.TotalRunningJobs

pendingJobMatchingTags(asg, st) == AnyTagCounted(asg.Tags, st.PendingJobsWithTags)

runningJobMatchingTags(asg, st) == AnyTagCounted(asg.Tags, st.RunningJobsWithTags)

pendingForASG(asg, st) == SumOverTags(asg.Tags, st.PendingJobsWithTags)

\* Mutant: the free capacity is taken from the shared total the workers are
\* still adding to.
freeCapacity_SharedTotal(rd, st) ==
    LET f == totalCapacity - st.TotalRunningJobs IN IF f < 0 THEN 0 ELSE f

freeCapacity(rd, st) ==
    LET f == rd.allocated - st.TotalRunningJobs IN IF f < 0 THEN 0 ELSE f

additionalNeeded(asg, rd, st) == pendingForASG(asg, st) - freeCapacity(rd, st)

proposed(asg, rd, st) ==
    LET p == rd.desired + additionalNeeded(asg, rd, st)
    IN  IF p > asg.MaxAsgCapacity THEN asg.MaxAsgCapacity ELSE p

\* The scale-up block calls UpdateASGCapacity(asg.Name, proposed).
ScaleUpCalls(asg, rd, st) ==
    /\ totalJobs(st) > 0
    /\ pendingJobMatchingTags(asg, st)
    /\ additionalNeeded(asg, rd, st) > 0
    /\ rd.allocated < proposed(asg, rd, st)

\* Mutant: the scale-down block takes two instances at once.
newCapacity_ByTwo(rd) == rd.allocated - 2

newCapacity(rd) == rd.allocated - 1

\* Mutant: the scale-to-zero switch is ignored, the floor is always 0.
minAllowed_AlwaysZero(asg) == 0

minAllowed(asg) == IF ~asg.ScaleToZero THEN 1 ELSE 0

\* Mutant: the scale-down block runs only when the cluster has no job at all.
ScaleDownCalls_OnlyWhenNoJobs(asg, rd, st) ==
    /\ totalJobs(st) = 0
    /\ newCapacity(rd) >= minAllowed(asg)

\* The scale-down block calls UpdateASGCapacity(asg.Name, newCapacity).
ScaleDownCalls(asg, rd, st) ==
    /\ ~pendingJobMatchingTags(asg, st)
    /\ ~runningJobMatchingTags(asg, st)
    /\ newCapacity(rd) >= minAllowed(asg)

\* ------------------------------------------- providers/aws (AWSClient)

\* GetCurrentCapacity on a described ASG: the allocated instances and the
\* desired capacity.
GetCurrentCapacity(name) ==
    [allocated |-> cloud[name].allocated, desired |-> cloud[name].DesiredCapacity]

\* An int64 is kept as its two 32-bit words in two's complement: hi is the
\* high word and lo the low word, each read as a signed 32-bit integer.
\* Int64(n) is the int64 that holds n, for -2^31 <= n < 2^31.
Int64(n) == [hi |-> IF n < 0 THEN -1 ELSE 0, lo |-> n]

\* a < b for two 32-bit words read as unsigned integers.
LessUnsigned(a, b) == IF (a >= 0) = (b >= 0) THEN a < b ELSE a >= 0

\* x < y for two int64.
Less64(x, y) == x.hi < y.hi \/ (x.hi = y.hi /\ LessUnsigned(x.lo, y.lo))

\* int32(capacity) of an int64: its low word.
Int32(capacity) == capacity.lo

\* UpdateAutoScalingGroupInput of UpdateASGCapacity: the three sizes are set
\* to the capacity.
UpdatedGroup(g, capacity) ==
    [g EXCEPT !.MinSize = Int32(capacity), !.MaxSize = Int32(capacity),
              !.DesiredCapacity = Int32(capacity)]

\* Mutant: no capacity is rejected.
RejectsCapacity_Never(capacity) == FALSE

\* UpdateASGCapacity rejects the capacity without a remote call.
RejectsCapacity(capacity) == Less64(capacity, Int64(minCapacity))

\* The effect on the cloud of UpdateASGCapacity(name, capacity); remoteOk
\* tells whether the UpdateAutoScalingGroup call succeeds.
CloudAfterUpdate(name, capacity, remoteOk) ==
    IF RejectsCapacity(Int64(capacity)) \/ ~remoteOk
    THEN cloud
    ELSE [cloud EXCEPT ![name] = UpdatedGroup(@, Int64(capacity))]

\* ------------------------------------------------------------------ state

NoState == CalculateClusterState(<<>>)

NoReading == [allocated |-> -1, desired |-> -1]

\* No collector call is being followed.
NoFetch == [endpoint |-> "none", server |-> <<>>, attempt |-> 0, requests |-> 0,
            slept |-> <<>>, result |-> [kind |-> "none"]]

NoCollect == [listing |-> <<>>, exclude |-> <<>>, fetched |-> FALSE,
              projects |-> <<>>, results |-> <<>>, done |-> FALSE, out |-> EmptyAgg]

\* No provider call is being followed.
NoAws == [exists |-> FALSE, Instances |-> <<>>, MinSize |-> 0, MaxSize |-> 0,
          DesiredCapacity |-> <<>>, updates |-> <<>>, calls |-> 0,
          ret |-> [op |-> "none"]]

\* No call of Calculate is being followed.
NoCalc == [asg |-> <<>>]

\* No registry is being followed.
NoReg == [clients |-> <<>>]

\* The process of main is not being followed.
NoSig == [handler |-> "none"]

Groups ==
    { [allocated |-> n, MinSize |-> d, MaxSize |-> d, DesiredCapacity |-> d] :
        n \in 0..MaxSize, d \in 0..MaxSize }

Names(c) == { c[k].Name : k \in 1..Len(c) }

Init ==
    /\ cfg \in Configs
    /\ cloud \in [Names(cfg) -> Groups]
    /\ phase = "idle"
    /\ lastRun = "none"
    /\ state = NoState
    /\ agg = EmptyAgg
    /\ pc = [w \in Workers |-> "start"]
    /\ reading = [w \in Workers |-> NoReading]
    /\ totalCapacity = 0
    /\ writes = [w \in Workers |-> <<>>]
    /\ tickC = <<>>
    /\ fetch = NoFetch
    /\ collect = NoCollect
    /\ aws = NoAws
    /\ calc = NoCalc
    /\ reg = NoReg
    /\ sig = NoSig

\* ---------------------------------------------------------------- the cloud

\* An instance of the group is launched: allocated moves toward desired.
Launch(name) ==
    /\ phase = "idle"
    /\ cloud[name].allocated < cloud[name].DesiredCapacity
    /\ cloud' = [cloud EXCEPT ![name].allocated = @ + 1]
    /\ UNCHANGED <<calc, reg, aws, sig, fetch, collect, tickC, cfg, phase, lastRun, state, agg, pc, reading, totalCapacity, writes>>

\* An instance of the group is terminated.
Terminate(name) ==
    /\ phase = "idle"
    /\ cloud[name].allocated > cloud[name].DesiredCapacity
    /\ cloud' = [cloud EXCEPT ![name].allocated = @ - 1]
    /\ UNCHANGED <<calc, reg, aws, sig, fetch, collect, tickC, cfg, phase, lastRun, state, agg, pc, reading, totalCapacity, writes>>

\* ------------------------------------------------------------- main (ticker)

\* The runtime sends on ticker.C without blocking: the channel holds one
\* tick, a tick that finds it full is lost.  A tick carries the time it fired
\* at, here: whether a reconciliation was running.
TickFires ==
    /\ tickC' = IF tickC = <<>> THEN <<phase>> ELSE tickC
    /\ UNCHANGED <<calc, reg, aws, sig, fetch, collect, cfg, cloud, phase, lastRun, state, agg, pc, reading,
                   totalCapacity, writes>>

\* main calls core.Run: once before the loop, then on `case <-ticker.C`.
MainCallsRun ==
    \/ lastRun = "none" /\ tickC' = tickC
    \/ lastRun # "none" /\ tickC # <<>> /\ tickC' = Tail(tickC)

\* ------------------------------------------------------------------ core.Run

\* Mutant: Run ignores the error of FetchProjects and goes on with no projects.
RunFetchProjectsFails_Ignored ==
    /\ phase = "idle"
    /\ MainCallsRun
    /\ lastRun' = "aborted"
    /\ agg' = EmptyAgg
    /\ state' = CalculateClusterState(<<>>)
    /\ phase' = "scaling"
    /\ totalCapacity' = 0
    /\ pc' = [w \in Workers |-> "read"]
    /\ UNCHANGED <<calc, reg, aws, sig, fetch, collect, cfg, cloud, reading, writes>>

\* FetchProjects returns an error: Run logs it and returns.
RunFetchProjectsFails ==
    /\ phase = "idle"
    /\ MainCallsRun
    /\ lastRun' = "aborted"
    /\ UNCHANGED <<calc, reg, aws, sig, fetch, collect, cfg, cloud, phase, state, agg, pc, reading, totalCapacity, writes>>

\* FetchProjects succeeds; CalculateClusterState fetches the jobs of the
\* project and aggregates; ScaleASGs starts one worker per ASG.
RunCollects ==
    /\ phase = "idle"
    /\ MainCallsRun
    /\ \E pendingJobs \in JobLists, runningJobs \in JobLists,
          pendingErr \in BOOLEAN, runningErr \in BOOLEAN :
         LET results == <<ProjectResult(pendingJobs, runningJobs, pendingErr, runningErr)>>
         IN  /\ agg' = AggregateAll(EmptyAgg, results)
             /\ state' = CalculateClusterState(results)
    /\ phase' = "scaling"
    /\ lastRun' = "running"
    /\ totalCapacity' = 0
    /\ pc' = [w \in Workers |-> "read"]
    /\ UNCHANGED <<calc, reg, aws, sig, fetch, collect, cfg, cloud, reading, writes>>

\* Mutant: ScaleASGs returns without wg.Wait(), the workers keep running.
RunReturns_NoWait ==
    /\ phase = "scaling"
    /\ phase' = "idle"
    /\ lastRun' = "completed"
    /\ UNCHANGED <<calc, reg, aws, sig, fetch, collect, tickC, cfg, cloud, state, agg, pc, reading,
                   totalCapacity, writes>>

\* wg.Wait() returns: every worker is done, Run returns.
RunReturns ==
    /\ phase = "scaling"
    /\ \A w \in Workers : pc[w] = "done"
    /\ phase' = "idle"
    /\ lastRun' = "completed"
    /\ state' = NoState
    /\ agg' = EmptyAgg
    /\ pc' = [w \in Workers |-> "start"]
    /\ reading' = [w \in Workers |-> NoReading]
    /\ totalCapacity' = 0
    /\ writes' = [w \in Workers |-> <<>>]
    /\ UNCHANGED <<calc, reg, aws, sig, fetch, collect, tickC, cfg, cloud>>

\* ------------------------------------------------------------------ scaleASG

\* Mutant: the worker goes on after a failed read, with the values the
\* failed call returned.
ReadFails_Continues(w) ==
    /\ pc[w] = "read"
    /\ pc' = [pc EXCEPT ![w] = "add"]
    /\ UNCHANGED <<calc, reg, aws, sig, fetch, collect, tickC, cfg, cloud, phase, lastRun, state, agg, reading,
                   totalCapacity, writes>>

\* provider.GetCurrentCapacity returns an error: the worker returns.
ReadFails(w) ==
    /\ pc[w] = "read"
    /\ pc' = [pc EXCEPT ![w] = "done"]
    /\ UNCHANGED <<calc, reg, aws, sig, fetch, collect, tickC, cfg, cloud, phase, lastRun, state, agg, reading, totalCapacity, writes>>

\* provider.GetCurrentCapacity returns the reading.
ReadSucceeds(w) ==
    /\ pc[w] = "read"
    /\ reading' = [reading EXCEPT ![w] = GetCurrentCapacity(cfg[w].Name)]
    /\ pc' = [pc EXCEPT ![w] = "add"]
    /\ UNCHANGED <<calc, reg, aws, sig, fetch, collect, tickC, cfg, cloud, phase, lastRun, state, agg, totalCapacity, writes>>

\* Mutant: the total is stored without the lock, from a value loaded when
\* ScaleASGs started: the additions of the other workers are lost.
AddTotal_LostUpdate(w) ==
    /\ pc[w] = "add"
    /\ totalCapacity' = 0 + reading[w].allocated
    /\ pc' = [pc EXCEPT ![w] = "up"]
    /\ UNCHANGED <<calc, reg, aws, sig, fetch, collect, tickC, cfg, cloud, phase, lastRun, state, agg, reading, writes>>

\* mu.Lock(); *totalCapacity += allocatedCount; mu.Unlock()
AddTotal(w) ==
    /\ pc[w] = "add"
    /\ totalCapacity' = totalCapacity + reading[w].allocated
    /\ pc' = [pc EXCEPT ![w] = "up"]
    /\ UNCHANGED <<calc, reg, aws, sig, fetch, collect, tickC, cfg, cloud, phase, lastRun, state, agg, reading, writes>>

\* Mutant: a failed UpdateASGCapacity is called a second time.
Update_Retries(w, branch, capacity, remoteOk) ==
    LET call == [branch |-> branch, target |-> capacity,
                 ok |-> remoteOk /\ ~RejectsCapacity(Int64(capacity))]
    IN  /\ writes' = [writes EXCEPT ![w] =
                        IF call.ok THEN Append(@, call) ELSE Append(Append(@, call), call)]
        /\ cloud' = CloudAfterUpdate(cfg[w].Name, capacity, remoteOk)

\* A call of provider.UpdateASGCapacity(asg.Name, capacity) by worker w.
Update(w, branch, capacity, remoteOk) ==
    /\ writes' = [writes EXCEPT ![w] = Append(@,
                    [branch |-> branch, target |-> capacity,
                     ok |-> remoteOk /\ ~RejectsCapacity(Int64(capacity))])]
    /\ cloud' = CloudAfterUpdate(cfg[w].Name, capacity, remoteOk)

\* The scale-up block, when it calls the provider.
ScaleUpWrites(w) ==
    /\ pc[w] = "up"
    /\ ScaleUpCalls(cfg[w], reading[w], state)
    /\ \E remoteOk \in BOOLEAN :
         Update(w, "up", proposed(cfg[w], reading[w], state), remoteOk)
    /\ pc' = [pc EXCEPT ![w] = "down"]
    /\ UNCHANGED <<calc, reg, aws, sig, fetch, collect, tickC, cfg, phase, lastRun, state, agg, reading, totalCapacity>>

\* The scale-up block, when it does nothing.
ScaleUpSkips(w) ==
    /\ pc[w] = "up"
    /\ ~ScaleUpCalls(cfg[w], reading[w], state)
    /\ pc' = [pc EXCEPT ![w] = "down"]
    /\ UNCHANGED <<calc, reg, aws, sig, fetch, collect, tickC, cfg, cloud, phase, lastRun, state, agg, reading, totalCapacity, writes>>

\* The scale-down block, when it calls the provider.
ScaleDownWrites(w) ==
    /\ pc[w] = "down"
    /\ ScaleDownCalls(cfg[w], reading[w], state)
    /\ \E remoteOk \in BOOLEAN :
         Update(w, "down", newCapacity(reading[w]), remoteOk)
    /\ pc' = [pc EXCEPT ![w] = "done"]
    /\ UNCHANGED <<calc, reg, aws, sig, fetch, collect, tickC, cfg, phase, lastRun, state, agg, reading, totalCapacity>>

\* The scale-down block, when it does nothing.
ScaleDownSkips(w) ==
    /\ pc[w] = "down"
    /\ ~ScaleDownCalls(cfg[w], reading[w], state)
    /\ pc' = [pc EXCEPT ![w] = "done"]
    /\ UNCHANGED <<calc, reg, aws, sig, fetch, collect, tickC, cfg, cloud, phase, lastRun, state, agg, reading, totalCapacity, writes>>

Next ==
    \/ TickFires
    \/ RunFetchProjectsFails
    \/ RunCollects
    \/ RunReturns
    \/ \E name \in Names(cfg) : Launch(name)
    \/ \E name \in Names(cfg) : Terminate(name)
    \/ \E w \in Workers : ReadFails(w)
    \/ \E w \in Workers : ReadSucceeds(w)
    \/ \E w \in Workers : AddTotal(w)
    \/ \E w \in Workers : ScaleUpWrites(w)
    \/ \E w \in Workers : ScaleUpSkips(w)
    \/ \E w \in Workers : ScaleDownWrites(w)
    \/ \E w \in Workers : ScaleDownSkips(w)

Spec == Init /\ [][Next]_vars

\* ------------------------------- gitlab/client.go (FetchProjects, FetchJobsCount)

\* One answer to gitlabClient.Do(req): a transport error, or a response with a
\* status and a body that json.Decode accepts or not.
TransportError == [err |-> TRUE, status |-> 0, decodes |-> FALSE]

Responses ==
    {TransportError}
    \cup [err : {FALSE}, status : {StatusOK}, decodes : BOOLEAN]
    \cup [err : {FALSE}, status : {StatusTooManyRequests, 404, 500}, decodes : {FALSE}]

\* The answers the server has ready: one more than a call can ask for.
Scripts == [1..(maxRetries + 1) -> Responses]

Endpoints == {"projects", "jobs"}

\* What a call returns.
Running == [kind |-> "running", status |-> 0]

Ok == [kind |-> "ok", status |-> StatusOK]

ErrTransport == [kind |-> "transport error", status |-> 0]

ErrStatus(status) == [kind |-> "status error", status |-> status]

ErrDecode == [kind |-> "decode error", status |-> StatusOK]

ErrAttempts == [kind |-> "failed after attempts", status |-> 0]

\* time.Duration(2<<attempt) * time.Second, in seconds.
\* Mutant: the wait grows linearly.
waitDuration_Linear(attempt) == 2 * (attempt + 1)

waitDuration(attempt) == 2 * (2 ^ attempt)

\* The order in which the loop body looks at the answer.
\* Mutant: the status is compared with 200 before it is compared with 429.
Classify_StatusFirst(resp) ==
    IF resp.err THEN "transport"
    ELSE IF resp.status # StatusOK THEN "status"
    ELSE IF resp.status = StatusTooManyRequests THEN "retry"
    ELSE IF ~resp.decodes THEN "decode"
    ELSE "ok"

Classify(resp) ==
    IF resp.err THEN "transport"
    ELSE IF resp.status = StatusTooManyRequests THEN "retry"
    ELSE IF resp.status # StatusOK THEN "status"
    ELSE IF ~resp.decodes THEN "decode"
    ELSE "ok"

\* Everything of the reconciler is at rest while one collector call is followed.
ReconcilerAtRest ==
    /\ cfg = <<>> /\ cloud = <<>>
    /\ phase = "idle" /\ lastRun = "none"
    /\ state = NoState /\ agg = EmptyAgg
    /\ pc = <<>> /\ reading = <<>> /\ writes = <<>>
    /\ totalCapacity = 0
    /\ tickC = <<>>

FetchInit ==
    /\ ReconcilerAtRest
    /\ collect = NoCollect
    /\ aws = NoAws
    /\ calc = NoCalc
    /\ reg = NoReg
    /\ sig = NoSig
    /\ \E endpoint \in Endpoints, server \in Scripts :
         fetch = [endpoint |-> endpoint, server |-> server, attempt |-> 0,
                  requests |-> 0, slept |-> <<>>, result |-> Running]

\* resp, err := gitlabClient.Do(req) of the current attempt.
Answer == fetch.server[fetch.requests + 1]

\* The loop body runs: attempt < maxRetries, and the answer is of the class.
Attempts(class) ==
    /\ fetch.result = Running
    /\ fetch.attempt < maxRetries
    /\ Classify(Answer) = class

\* if err != nil { return nil, err }
FetchTransportError ==
    /\ Attempts("transport")
    /\ fetch' = [fetch EXCEPT !.requests = @ + 1, !.result = ErrTransport]
    /\ UNCHANGED <<calc, reg, aws, sig, collect, tickC, cfg, cloud, phase, lastRun, state, agg, pc, reading,
                   totalCapacity, writes>>

\* 429: time.Sleep(waitDuration); continue
FetchTooManyRequests ==
    /\ Attempts("retry")
    /\ fetch' = [fetch EXCEPT !.requests = @ + 1,
                              !.slept = Append(@, waitDuration(fetch.attempt)),
                              !.attempt = @ + 1]
    /\ UNCHANGED <<calc, reg, aws, sig, collect, tickC, cfg, cloud, phase, lastRun, state, agg, pc, reading,
                   totalCapacity, writes>>

\* if resp.StatusCode != http.StatusOK { return ..., fmt.Errorf(..., resp.Status) }
FetchBadStatus ==
    /\ Attempts("status")
    /\ fetch' = [fetch EXCEPT !.requests = @ + 1, !.result = ErrStatus(Answer.status)]
    /\ UNCHANGED <<calc, reg, aws, sig, collect, tickC, cfg, cloud, phase, lastRun, state, agg, pc, reading,
                   totalCapacity, writes>>

\* json.NewDecoder(resp.Body).Decode fails: return the error.
FetchDecodeError ==
    /\ Attempts("decode")
    /\ fetch' = [fetch EXCEPT !.requests = @ + 1, !.result = ErrDecode]
    /\ UNCHANGED <<calc, reg, aws, sig, collect, tickC, cfg, cloud, phase, lastRun, state, agg, pc, reading,
                   totalCapacity, writes>>

\* The body decodes: the call returns the projects / the job count and tags.
FetchReturns ==
    /\ Attempts("ok")
    /\ fetch' = [fetch EXCEPT !.requests = @ + 1, !.result = Ok]
    /\ UNCHANGED <<calc, reg, aws, sig, collect, tickC, cfg, cloud, phase, lastRun, state, agg, pc, reading,
                   totalCapacity, writes>>

\* The loop ends: return ..., fmt.Errorf("failed to fetch ... after %d attempts")
FetchGivesUp ==
    /\ fetch.result = Running
    /\ ~(fetch.attempt < maxRetries)
    /\ fetch' = [fetch EXCEPT !.result = ErrAttempts]
    /\ UNCHANGED <<calc, reg, aws, sig, collect, tickC, cfg, cloud, phase, lastRun, state, agg, pc, reading,
                   totalCapacity, writes>>

FetchNext ==
    \/ FetchTransportError
    \/ FetchTooManyRequests
    \/ FetchBadStatus
    \/ FetchDecodeError
    \/ FetchReturns
    \/ FetchGivesUp

FetchSpec == FetchInit /\ [][FetchNext]_vars

\* ----------------------------------- gitlab/client.go (CalculateClusterState)

\* What the two jobs requests of one project come to: the job lists the
\* server holds and whether each request ends in an error.
ProjectAnswers ==
    { [pendingJobs |-> << <<"a">> >>, runningJobs |-> << <<"b">> >>,
       pendingErr |-> FALSE, runningErr |-> FALSE],
      [pendingJobs |-> << <<>> >>, runningJobs |-> << <<"a">> >>,
       pendingErr |-> FALSE, runningErr |-> FALSE],
      [pendingJobs |-> <<>>, runningJobs |-> <<>>,
       pendingErr |-> FALSE, runningErr |-> FALSE],
      [pendingJobs |-> << <<"a">> >>, runningJobs |-> << <<"a">> >>,
       pendingErr |-> TRUE, runningErr |-> FALSE],
      [pendingJobs |-> << <<"a">> >>, runningJobs |-> << <<"b">> >>,
       pendingErr |-> FALSE, runningErr |-> TRUE],
      [pendingJobs |-> << <<>>, <<"a">> >>, runningJobs |-> <<>>,
       pendingErr |-> FALSE, runningErr |-> FALSE],
      [pendingJobs |-> << <<"a", "b">> >>, runningJobs |-> << <<"b", "a">> >>,
       pendingErr |-> FALSE, runningErr |-> FALSE] }

\* The names of the projects of the group, in the order the listing returns
\* them.
ProjectNames == <<"p1", "p2", "p3", "p4", "p5">>

\* cfg.GitLab.ExcludeProjects
ExcludeLists == {<<>>, <<"p1">>, <<"p2">>, <<"p2", "p1">>}

\* Mutant: no project is ever excluded.
isExcluded_Never(projectName, excludeProjects) == FALSE

isExcluded(projectName, excludeProjects) ==
    \E k \in 1..Len(excludeProjects) : projectName = excludeProjects[k]

\* FetchProjects: for _, project := range projects { if !isExcluded ... append }
RECURSIVE allProjects(_, _)
allProjects(projects, excludeProjects) ==
    IF projects = <<>> THEN <<>>
    ELSE IF isExcluded(Head(projects).Name, excludeProjects)
         THEN allProjects(Tail(projects), excludeProjects)
         ELSE <<Head(projects)>> \o allProjects(Tail(projects), excludeProjects)

\* The i-th project of the group with the answers its jobs requests get.
Listed(answers) ==
    [i \in 1..Len(answers) |->
        [Name |-> ProjectNames[i],
         pendingJobs |-> answers[i].pendingJobs, runningJobs |-> answers[i].runningJobs,
         pendingErr |-> answers[i].pendingErr, runningErr |-> answers[i].runningErr]]

CollectInit ==
    /\ ReconcilerAtRest
    /\ fetch = NoFetch
    /\ aws = NoAws
    /\ calc = NoCalc
    /\ reg = NoReg
    /\ sig = NoSig
    /\ \E answers \in SeqsUpTo(ProjectAnswers, MaxProjects), exclude \in ExcludeLists :
         collect = [NoCollect EXCEPT !.listing = Listed(answers), !.exclude = exclude]

\* FetchProjects returns the listed projects that are not excluded.
ProjectsFetched ==
    /\ ~collect.fetched
    /\ collect' = [collect EXCEPT !.fetched = TRUE,
                                  !.projects = allProjects(collect.listing, collect.exclude)]
    /\ UNCHANGED <<calc, reg, aws, sig, fetch, tickC, cfg, cloud, phase, lastRun, state, agg, pc, reading,
                   totalCapacity, writes>>

\* The projects whose goroutine has sent its result.
Reported == { collect.results[k].id : k \in 1..Len(collect.results) }

\* Mutant: the results channel is unbuffered.
resultsCap_Unbuffered(projects) == 0

\* make(chan struct{...}, len(projects)): the capacity of the results channel.
resultsCap(projects) == Len(projects)

\* The goroutine of project i sends its result on the results channel; the
\* send blocks while the channel is full (nothing receives before wg.Wait()
\* has returned).
ProjectReports(i) ==
    /\ collect.fetched
    /\ ~collect.done
    /\ i \notin Reported
    /\ Len(collect.results) < resultsCap(collect.projects)
    /\ LET p == collect.projects[i]
           r == ProjectResult(p.pendingJobs, p.runningJobs, p.pendingErr, p.runningErr)
       IN  collect' = [collect EXCEPT !.results = Append(@,
                          [id |-> i, pending |-> r.pending, running |-> r.running,
                           pendingTags |-> r.pendingTags, runningTags |-> r.runningTags,
                           err |-> r.err])]
    /\ UNCHANGED <<calc, reg, aws, sig, fetch, tickC, cfg, cloud, phase, lastRun, state, agg, pc, reading,
                   totalCapacity, writes>>

\* wg.Wait(); close(results); the loop over the results; return.
CollectReturns ==
    /\ collect.fetched
    /\ ~collect.done
    /\ Reported = 1..Len(collect.projects)
    /\ collect' = [collect EXCEPT !.done = TRUE,
                                  !.out = AggregateAll(EmptyAgg, collect.results)]
    /\ UNCHANGED <<calc, reg, aws, sig, fetch, tickC, cfg, cloud, phase, lastRun, state, agg, pc, reading,
                   totalCapacity, writes>>

CollectNext ==
    \/ ProjectsFetched
    \/ \E i \in 1..Len(collect.projects) : ProjectReports(i)
    \/ CollectReturns

CollectSpec == CollectInit /\ [][CollectNext]_vars

\* FetchProjects and every FetchJobsCount return, and the goroutines and the
\* caller are scheduled.
CollectFairSpec ==
    /\ CollectSpec
    /\ WF_vars(ProjectsFetched)
    /\ WF_vars(\E i \in 1..Len(collect.projects) : ProjectReports(i))
    /\ WF_vars(CollectReturns)

\* ------------------------------------- providers/aws (one AWSClient, one ASG)

\* types.LifecycleState of an instance as DescribeAutoScalingGroups reports
\* it; "" is the zero value.
LifecycleStates ==
    {"InService", "Pending", "Pending:Wait", "Pending:Proceed", "Terminating", ""}

\* Mutant: only instances in service are allocated.
allocatedStates_InService == {"InService"}

allocatedStates == {"InService", "Pending", "Pending:Wait", "Pending:Proceed"}

\* for _, inst := range asg.Instances { ... allocatedCount++ }
RECURSIVE allocatedCount(_)
allocatedCount(instances) ==
    IF instances = <<>> THEN 0
    ELSE LET inst == Head(instances)
         IN  IF inst = "" THEN allocatedCount(Tail(instances))
             ELSE IF inst \in allocatedStates
                  THEN 1 + allocatedCount(Tail(instances))
                  ELSE allocatedCount(Tail(instances))

\* desiredCapacity of GetCurrentCapacity: 0 unless the group reports a
\* non-zero one. The *int32 is a sequence, empty for nil.
desiredCapacity(asg) ==
    IF asg.DesiredCapacity # <<>> /\ asg.DesiredCapacity[1] # 0
    THEN asg.DesiredCapacity[1]
    ELSE 0

\* The capacities UpdateASGCapacity is called with: -1..MaxSize, 2^31 - 1,
\* 2^31 and 2^32.
Capacities ==
    { Int64(n) : n \in -1..MaxSize } \cup
    { Int64(2147483647), [hi |-> 0, lo |-> -2147483647 - 1], [hi |-> 1, lo |-> 0] }

ProviderInit ==
    /\ ReconcilerAtRest
    /\ calc = NoCalc
    /\ reg = NoReg
    /\ fetch = NoFetch
    /\ collect = NoCollect
    /\ sig = NoSig
    /\ \E exists \in BOOLEAN, instances \in SeqsUpTo(LifecycleStates, MaxInstances),
          d \in SeqsUpTo(0..MaxSize, 1) :
         aws = [NoAws EXCEPT !.exists = exists,
                             !.Instances = IF exists THEN instances ELSE <<>>,
                             !.MaxSize = IF exists THEN MaxSize ELSE 0,
                             !.DesiredCapacity = IF exists THEN d ELSE <<>>]

\* GetCurrentCapacity(asgName); apiOk tells whether DescribeAutoScalingGroups
\* succeeds.
CallGetCurrentCapacity ==
    /\ aws.calls < MaxCalls
    /\ \E apiOk \in BOOLEAN :
         aws' = [aws EXCEPT
            !.calls = @ + 1,
            !.ret = IF ~apiOk
                    THEN [op |-> "read", allocated |-> 0, desired |-> 0,
                          err |-> "failed to describe ASG"]
                    ELSE IF ~aws.exists
                    THEN [op |-> "read", allocated |-> 0, desired |-> 0,
                          err |-> "ASG not found"]
                    ELSE [op |-> "read", allocated |-> allocatedCount(aws.Instances),
                          desired |-> desiredCapacity(aws), err |-> "nil"]]
    /\ UNCHANGED <<calc, reg, sig, fetch, collect, tickC, cfg, cloud, phase, lastRun, state, agg, pc,
                   reading, totalCapacity, writes>>

\* UpdateASGCapacity(asgName, capacity); apiOk tells whether the
\* UpdateAutoScalingGroup call succeeds, which it never does for a group that
\* does not exist or for a negative size.
CallUpdateASGCapacity ==
    /\ aws.calls < MaxCalls
    /\ \E capacity \in Capacities, apiOk \in BOOLEAN :
         IF RejectsCapacity(capacity)
         THEN aws' = [aws EXCEPT
                 !.calls = @ + 1,
                 !.ret = [op |-> "write", capacity |-> capacity, issued |-> FALSE,
                          err |-> "cannot set capacity below 0"]]
         ELSE LET input == UpdatedGroup([MinSize |-> 0, MaxSize |-> 0,
                                         DesiredCapacity |-> 0], capacity)
                  done  == apiOk /\ aws.exists /\ input.MinSize >= 0
              IN  aws' = [aws EXCEPT
                     !.calls = @ + 1,
                     !.updates = Append(@, input),
                     !.MinSize = IF done THEN input.MinSize ELSE @,
                     !.MaxSize = IF done THEN input.MaxSize ELSE @,
                     !.DesiredCapacity = IF done THEN <<input.DesiredCapacity>> ELSE @,
                     !.ret = [op |-> "write", capacity |-> capacity, issued |-> TRUE,
                              err |-> IF done THEN "nil" ELSE "failed to update ASG"]]
    /\ UNCHANGED <<calc, reg, sig, fetch, collect, tickC, cfg, cloud, phase, lastRun, state, agg, pc,
                   reading, totalCapacity, writes>>

ProviderNext ==
    \/ CallGetCurrentCapacity
    \/ CallUpdateASGCapacity

ProviderSpec == ProviderInit /\ [][ProviderNext]_vars

\* ------------------------------------------------ main (signals, reload, exit)

\* The contents config.Load can find in the configuration file: <<>> is a
\* file that cannot be opened or decoded, <<c>> one that decodes to c.
GoodConfig ==
    [CheckInterval |-> 1, Token |-> "t", Group |-> "g",
     Providers |-> {[name |-> "aws", Region |-> "eu-west-1",
                     AsgNames |-> <<[Name |-> "asg1", MaxAsgCapacity |-> 1, Region |-> ""],
                                    [Name |-> "asg3", MaxAsgCapacity |-> 1,
                                     Region |-> "us-west-2"]>>]}]

ConfigFiles ==
    { <<>>,
      <<GoodConfig>>,
      <<[GoodConfig EXCEPT !.CheckInterval = 2, !.Providers =
            {[name |-> "AWS", Region |-> "",
              AsgNames |-> <<[Name |-> "asg2", MaxAsgCapacity |-> 0, Region |-> ""]>>],
             [name |-> "gcp", Region |-> "", AsgNames |-> <<>>]}]>>,
      <<[GoodConfig EXCEPT !.CheckInterval = 0]>>,
      <<[GoodConfig EXCEPT !.Token = ""]>>,
      <<[GoodConfig EXCEPT !.Group = ""]>>,
      <<[GoodConfig EXCEPT !.Providers =
            {[name |-> "aws", Region |-> "eu-west-1",
              AsgNames |-> <<[Name |-> "", MaxAsgCapacity |-> 1, Region |-> ""]>>]}]>>,
      <<[GoodConfig EXCEPT !.Providers =
            {[name |-> "aws", Region |-> "eu-west-1",
              AsgNames |-> <<[Name |-> "asg1", MaxAsgCapacity |-> -1, Region |-> ""]>>]}]>>,
      <<[GoodConfig EXCEPT !.Providers =
            {[name |-> "gcp", Region |-> "eu-west-1",
              AsgNames |-> <<[Name |-> "asg1", MaxAsgCapacity |-> 1, Region |-> ""]>>]}]>> }

\* config.Load
Load(file) == IF file = <<>> THEN [err |-> TRUE] ELSE [err |-> FALSE, cfg |-> file[1]]

\* (*Asg).Validate: the error, "" for nil
AsgValidate(a) ==
    IF a.Name = "" THEN "name is required"
    ELSE IF a.MaxAsgCapacity < 0 THEN "max-asg-capacity must be non-negative"
    ELSE ""

\* Mutant: every configuration is valid.
Validate_Accepts(c) == ""

\* (*Config).Validate: the error, "" for nil
Validate(c) ==
    IF c.CheckInterval <= 0 THEN "check-interval must be positive"
    ELSE IF \E pr \in c.Providers : \E i \in 1..Len(pr.AsgNames) :
                AsgValidate(pr.AsgNames[i]) # ""
    THEN "asg"
    ELSE IF Len(c.Token) = 0 THEN "gitlab.token is required"
    ELSE IF Len(c.Group) = 0 THEN "gitlab.group is required"
    ELSE ""

\* strings.ToLower on the provider names that occur
ToLower(providerName) == IF providerName = "AWS" THEN "aws" ELSE providerName

\* The providers of the configuration that have ASGs.
WithAsgs(c) == { pr \in c.Providers : Len(pr.AsgNames) # 0 }

\* defaultRegion of buildProvidersFromConfig; AWS_REGION is not set
defaultRegion(pr) == IF pr.Region = "" THEN "us-east-1" ELSE pr.Region

\* buildProvidersFromConfig; clientOk tells whether aws.NewAWSClient succeeds.
\* A provider is the region its client was made for.
buildProvidersFromConfig(c, clientOk) ==
    IF \E pr \in WithAsgs(c) : ToLower(pr.name) # "aws"
    THEN [err |-> "unsupported provider"]
    ELSE IF WithAsgs(c) # {} /\ ~clientOk
    THEN [err |-> "failed to initialize client"]
    ELSE [err |-> "",
          providers |-> { <<pr.name, defaultRegion(pr)>> : pr \in WithAsgs(c) },
          asgToProvider |->
              UNION { { <<pr.AsgNames[i].Name, pr.name>> : i \in 1..Len(pr.AsgNames) } :
                      pr \in WithAsgs(c) }]

\* Mutant: a reload signal is never too early.
Debounced_Never(now, lastReload) == FALSE

\* time.Since(lastReload) < minInterval; lastReload is <<>> for the zero Time
Debounced(now, lastReload) ==
    lastReload # <<>> /\ now - lastReload[1] < minInterval

Signals == {"SIGHUP", "SIGINT", "SIGTERM"}

\* What a call of core.Run has read so far: nothing.
NoRun == [cfg |-> <<>>, asg |-> <<>>, asgToProvider |-> <<>>, providers |-> <<>>,
          calls |-> <<>>]

\* allAsgs of ScaleASGs: the ASGs of all providers of the configuration
allAsgs(c) ==
    UNION { { pr.AsgNames[i] : i \in 1..Len(pr.AsgNames) } : pr \in c.Providers }

\* scaleASG: providerName := o.asgToProvider[asg.Name], "aws" if that is ""
providerName(asgName, asgToProvider) ==
    IF \E e \in asgToProvider : e[1] = asgName
    THEN (CHOOSE e \in asgToProvider : e[1] = asgName)[2]
    ELSE "aws"

\* scaleASG: provider, ok := o.providers[providerName]; <<>> when not ok
providerOf(name, providers) ==
    IF \E e \in providers : e[1] = name
    THEN <<(CHOOSE e \in providers : e[1] = name)[2]>>
    ELSE <<>>

\* main has loaded and validated the configuration, built the providers and
\* the orchestrator, made ctx and sigCh and started the signal goroutine.
SignalInit ==
    /\ ReconcilerAtRest
    /\ fetch = NoFetch
    /\ collect = NoCollect
    /\ aws = NoAws
    /\ calc = NoCalc
    /\ reg = NoReg
    /\ LET built == buildProvidersFromConfig(GoodConfig, TRUE)
       IN  sig = [handler |-> "select", sigCh |-> <<>>, lastReload |-> <<>>, now |-> 0,
                  attempt |-> <<>>, newCfg |-> <<>>, last |-> "none",
                  cfg |-> GoodConfig, cfgBefore |-> GoodConfig,
                  providers |-> built.providers, asgToProvider |-> built.asgToProvider,
                  ctx |-> "live", main |-> "start", run |-> NoRun, tick |-> FALSE,
                  ticker |-> <<>>,
                  termSent |-> FALSE]

sigRest == <<calc, reg, aws, fetch, collect, tickC, cfg, cloud, phase, lastRun, state, agg, pc,
             reading, totalCapacity, writes>>

\* Wall-clock time passes.
TimePasses ==
    /\ sig.main # "exited"
    /\ sig.now + 500 <= MaxClock * 1000
    /\ sig' = [sig EXCEPT !.now = @ + 500]
    /\ UNCHANGED sigRest

\* The process is sent a signal. signal.Notify's channel has capacity 1 and
\* the runtime does not block on it: the signal is lost when sigCh is full.
SignalArrives(s) ==
    /\ sig.main # "exited"
    /\ sig' = [sig EXCEPT
          !.sigCh = IF Len(@) < 1 THEN Append(@, s) ELSE @,
          !.termSent = @ \/ s \in {"SIGINT", "SIGTERM"}]
    /\ UNCHANGED sigRest

\* case syscall.SIGHUP, within minInterval of the last reload: continue
ReloadSuppressed ==
    /\ sig.handler = "select"
    /\ sig.sigCh # <<>>
    /\ Head(sig.sigCh) = "SIGHUP"
    /\ Debounced(sig.now, sig.lastReload)
    /\ sig' = [sig EXCEPT !.sigCh = Tail(@), !.last = "suppressed"]
    /\ UNCHANGED sigRest

\* case syscall.SIGHUP: lastReload = time.Now()
ReloadStarts ==
    /\ sig.handler = "select"
    /\ sig.sigCh # <<>>
    /\ Head(sig.sigCh) = "SIGHUP"
    /\ ~Debounced(sig.now, sig.lastReload)
    /\ sig' = [sig EXCEPT !.sigCh = Tail(@), !.lastReload = <<sig.now>>,
                          !.handler = "reload", !.attempt = <<>>, !.last = "reloading"]
    /\ UNCHANGED sigRest

\* config.Load, Validate and buildProvidersFromConfig of the reload, on the
\* file as it is on disk now.
ReloadBuilds ==
    /\ sig.handler = "reload"
    /\ \E file \in ConfigFiles, clientOk \in BOOLEAN :
         LET loaded == Load(file)
             built  == buildProvidersFromConfig(loaded.cfg, clientOk)
             try    == <<[file |-> file, clientOk |-> clientOk]>>
         IN  IF loaded.err
             THEN sig' = [sig EXCEPT !.handler = "select", !.attempt = try,
                                    !.last = "load failed"]
             ELSE IF Validate(loaded.cfg) # ""
             THEN sig' = [sig EXCEPT !.handler = "select", !.attempt = try,
                                    !.last = "validation failed"]
             ELSE IF built.err # ""
             THEN sig' = [sig EXCEPT !.handler = "select", !.attempt = try,
                                    !.last = "providers failed"]
             ELSE sig' = [sig EXCEPT !.handler = "swap", !.attempt = try,
                                    !.newCfg = <<[cfg |-> loaded.cfg,
                                                  providers |-> built.providers,
                                                  asgToProvider |-> built.asgToProvider]>>]
    /\ UNCHANGED sigRest

\* orchestrator.SetProviders(newProviders, newAsgToProvider): both maps are
\* installed in one step.
SetProviders ==
    /\ sig.handler = "swap"
    /\ sig' = [sig EXCEPT !.handler = "assign",
                          !.providers = sig.newCfg[1].providers,
                          !.asgToProvider = sig.newCfg[1].asgToProvider]
    /\ UNCHANGED sigRest

\* cfg = newCfg, a plain write to the variable main reads
AssignCfg ==
    /\ sig.handler = "assign"
    /\ sig' = [sig EXCEPT !.handler = "select", !.cfgBefore = sig.cfg,
                          !.cfg = sig.newCfg[1].cfg, !.newCfg = <<>>,
                          !.last = "reloaded"]
    /\ UNCHANGED sigRest

\* case syscall.SIGINT, syscall.SIGTERM: cancel(); return
Shutdown ==
    /\ sig.handler = "select"
    /\ sig.sigCh # <<>>
    /\ Head(sig.sigCh) \in {"SIGINT", "SIGTERM"}
    /\ sig' = [sig EXCEPT !.sigCh = Tail(@), !.ctx = "cancelled",
                          !.handler = "returned", !.last = "shutdown"]
    /\ UNCHANGED sigRest

\* ticker := time.NewTicker(time.Duration(cfg.Autoscaler.CheckInterval) *
\* time.Second), after the signal goroutine was started: the read of cfg is
\* not ordered with that goroutine's write.
MainCreatesTicker ==
    /\ sig.main = "start"
    /\ \E c \in {sig.cfg, sig.cfgBefore} :
         sig' = [sig EXCEPT !.main = "first",
                            !.ticker = <<[period |-> c.CheckInterval]>>]
    /\ UNCHANGED sigRest

\* The ticker sends on ticker.C, which holds one tick; a further tick is
\* dropped.
TickerSends ==
    /\ sig.ticker # <<>>
    /\ sig.main # "exited"
    /\ sig' = [sig EXCEPT !.tick = TRUE]
    /\ UNCHANGED sigRest

\* core.Run(cfg, orchestrator) is called, first before the loop and then on
\* case <-ticker.C. The read of cfg is not ordered with the signal
\* goroutine's write: it gives the value written last or the one before.
MainCallsCoreRun ==
    /\ \/ sig.main = "first"
       \/ sig.main = "select" /\ sig.tick
    /\ \E c \in {sig.cfg, sig.cfgBefore} :
         sig' = [sig EXCEPT !.main = "running",
                            !.tick = IF sig.main = "first" THEN @ ELSE FALSE,
                            !.run = [NoRun EXCEPT !.cfg = <<c>>]]
    /\ UNCHANGED sigRest

\* A worker of ScaleASGs, for one of the ASGs of the cfg Run was called with,
\* begins scaleASG: providerName := o.asgToProvider[asg.Name]
WorkerReadsAsgToProvider ==
    /\ sig.main = "running"
    /\ sig.run.asgToProvider = <<>>
    /\ \E asg \in allAsgs(sig.run.cfg[1]) :
         sig' = [sig EXCEPT !.run.asg = <<asg>>,
                            !.run.asgToProvider = <<sig.asgToProvider>>]
    /\ UNCHANGED sigRest

\* scaleASG from provider, ok := o.providers[providerName] to its end: without
\* a provider it returns; otherwise it calls GetCurrentCapacity and, if that
\* succeeds and one of the two blocks decides so, UpdateASGCapacity once.
\* A provider is the region of its client, which each call is recorded with.
WorkerReadsProviders ==
    /\ sig.main = "running"
    /\ sig.run.asgToProvider # <<>>
    /\ sig.run.providers = <<>>
    /\ LET name     == providerName(sig.run.asg[1].Name, sig.run.asgToProvider[1])
           provider == providerOf(name, sig.providers)
       IN  IF provider = <<>>
           THEN sig' = [sig EXCEPT !.run.providers = <<sig.providers>>]
           ELSE \E readOk \in BOOLEAN, decidesWrite \in BOOLEAN :
                  sig' = [sig EXCEPT
                     !.run.providers = <<sig.providers>>,
                     !.run.calls =
                        <<[op |-> "read", region |-> provider[1]]>> \o
                        (IF readOk /\ decidesWrite
                         THEN <<[op |-> "write", region |-> provider[1]]>>
                         ELSE <<>>)]
    /\ UNCHANGED sigRest

\* core.Run returns, after its workers or before any was started.
CoreRunReturns ==
    /\ sig.main = "running"
    /\ sig.run.asgToProvider # <<>> => sig.run.providers # <<>>
    /\ sig' = [sig EXCEPT !.main = "select", !.run = NoRun]
    /\ UNCHANGED sigRest

\* case <-ctx.Done(): return
MainExits ==
    /\ sig.main = "select"
    /\ sig.ctx = "cancelled"
    /\ sig' = [sig EXCEPT !.main = "exited"]
    /\ UNCHANGED sigRest

SignalNext ==
    \/ TimePasses
    \/ \E s \in Signals : SignalArrives(s)
    \/ ReloadSuppressed
    \/ ReloadStarts
    \/ ReloadBuilds
    \/ SetProviders
    \/ AssignCfg
    \/ Shutdown
    \/ MainCreatesTicker
    \/ TickerSends
    \/ MainCallsCoreRun
    \/ WorkerReadsAsgToProvider
    \/ WorkerReadsProviders
    \/ CoreRunReturns
    \/ MainExits

SignalSpec == SignalInit /\ [][SignalNext]_vars

\* The ticker keeps sending; the signal goroutine, main and the calls of
\* core.Run make progress; a select with several ready cases picks one at
\* random, so main, back at its select again and again with ctx done, does
\* take that case.
SignalFairSpec ==
    /\ SignalSpec
    /\ WF_vars(ReloadSuppressed)
    /\ WF_vars(ReloadStarts)
    /\ WF_vars(ReloadBuilds)
    /\ WF_vars(SetProviders)
    /\ WF_vars(AssignCfg)
    /\ WF_vars(Shutdown)
    /\ WF_vars(MainCreatesTicker)
    /\ WF_vars(TickerSends)
    /\ WF_vars(MainCallsCoreRun)
    /\ WF_vars(WorkerReadsAsgToProvider)
    /\ WF_vars(WorkerReadsProviders)
    /\ WF_vars(CoreRunReturns)
    /\ SF_vars(MainExits)

\* ------------------------------------------- core/calculator.go (Calculate)

\* The keys of PendingJobsWithTags and RunningJobsWithTags; a key that is
\* absent from the Go map reads as 0.
CalcTags == Tags \cup {"c"}

\* Mutant: the running jobs of the ASG's tags are counted as well.
Calculate_CountsRunning(asg, st) ==
    SumOverTags(asg.Tags, st.PendingJobsWithTags)
        + SumOverTags(asg.Tags, st.RunningJobsWithTags)

\* for _, tag := range asg.Tags { pendingCount += int64(state.PendingJobsWithTags[tag]) }
Calculate(asg, st) == SumOverTags(asg.Tags, st.PendingJobsWithTags)

\* An ASG and a cluster state; no call has been made yet.
CalcInit ==
    /\ ReconcilerAtRest
    /\ fetch = NoFetch
    /\ collect = NoCollect
    /\ aws = NoAws
    /\ sig = NoSig
    /\ reg = NoReg
    /\ \E tags \in SeqsUpTo(CalcTags, MaxTags),
          pending \in [CalcTags -> 0..MaxPerTag],
          running \in [CalcTags -> 0..1] :
         calc = [asg |-> [Name |-> "test-asg", Tags |-> tags],
                 state |-> [PendingJobsWithTags |-> pending,
                            RunningJobsWithTags |-> running],
                 ret |-> <<>>, before |-> <<>>]

calcRest == <<reg, sig, aws, fetch, collect, tickC, cfg, cloud, phase, lastRun, state, agg,
              pc, reading, totalCapacity, writes>>

\* desired := calculator.Calculate(asg, state)
CallCalculate ==
    /\ calc.ret = <<>>
    /\ calc' = [calc EXCEPT !.ret = <<Calculate(calc.asg, calc.state)>>]
    /\ UNCHANGED calcRest

\* The caller builds another state: the pending jobs of a tag the ASG does
\* not serve change; the result of the last call is kept for comparison.
OtherPendingChanges(tag, n) ==
    /\ calc.ret # <<>>
    /\ calc.before = <<>>
    /\ \A k \in 1..Len(calc.asg.Tags) : calc.asg.Tags[k] # tag
    /\ calc.state.PendingJobsWithTags[tag] # n
    /\ calc' = [calc EXCEPT !.state.PendingJobsWithTags[tag] = n,
                            !.before = calc.ret, !.ret = <<>>]
    /\ UNCHANGED calcRest

\* The caller builds another state: the running jobs of a tag change.
RunningChanges(tag, n) ==
    /\ calc.ret # <<>>
    /\ calc.before = <<>>
    /\ calc.state.RunningJobsWithTags[tag] # n
    /\ calc' = [calc EXCEPT !.state.RunningJobsWithTags[tag] = n,
                            !.before = calc.ret, !.ret = <<>>]
    /\ UNCHANGED calcRest

CalcNext ==
    \/ CallCalculate
    \/ \E tag \in CalcTags, n \in 0..MaxPerTag : OtherPendingChanges(tag, n)
    \/ \E tag \in CalcTags, n \in 0..1 : RunningChanges(tag, n)

CalcSpec == CalcInit /\ [][CalcNext]_vars

\* --------------------------------------------- providers/aws (AWSClients.Get)

Callers == 1..MaxCallers

\* The regions Get is called with.
Regions == {"eu-west-1", "us-west-2"}

\* NewAWSClients: an empty map; mu is 0 when no caller holds the write lock,
\* else that caller. initialized counts the calls of InitializeAWS per
\* region, and the n-th client made for a region is <<region, n>>.
RegistryInit ==
    /\ ReconcilerAtRest
    /\ fetch = NoFetch
    /\ collect = NoCollect
    /\ aws = NoAws
    /\ sig = NoSig
    /\ calc = NoCalc
    /\ reg = [clients |-> {}, mu |-> 0,
              at |-> [c \in Callers |-> "idle"],
              region |-> [c \in Callers |-> ""],
              initialized |-> [r \in Regions |-> 0],
              returned |-> {}]

regRest == <<calc, sig, aws, fetch, collect, tickC, cfg, cloud, phase, lastRun, state, agg,
             pc, reading, totalCapacity, writes>>

\* client, exists := a.clients[region]
Exists(clients, region) == \E e \in clients : e[1] = region

ClientOf(clients, region) == (CHOOSE e \in clients : e[1] = region)[2]

\* Mutant: the slow path does not look at the map again.
SlowPathExists_No(clients, region) == FALSE

\* The double-check under the write lock.
SlowPathExists(clients, region) == Exists(clients, region)

\* Get(region), fast path: RLock, look the region up, RUnlock; return the
\* client if it exists. The read lock is not granted while a caller holds the
\* write lock.
GetFastPath(c, region) ==
    /\ reg.at[c] = "idle"
    /\ reg.mu = 0
    /\ IF Exists(reg.clients, region)
       THEN reg' = [reg EXCEPT
               !.returned = @ \cup {<<region, ClientOf(reg.clients, region)>>}]
       ELSE reg' = [reg EXCEPT !.at[c] = "slow", !.region[c] = region]
    /\ UNCHANGED regRest

\* a.mu.Lock()
GetLocks(c) ==
    /\ reg.at[c] = "slow"
    /\ reg.mu = 0
    /\ reg' = [reg EXCEPT !.mu = c, !.at[c] = "locked"]
    /\ UNCHANGED regRest

\* Under the write lock: the double-check, InitializeAWS and the store; the
\* deferred Unlock on return.
GetSlowPath(c) ==
    /\ reg.at[c] = "locked"
    /\ LET region == reg.region[c]
       IN  IF SlowPathExists(reg.clients, region)
           THEN reg' = [reg EXCEPT
                   !.mu = 0, !.at[c] = "idle", !.region[c] = "",
                   !.returned = @ \cup {<<region, ClientOf(reg.clients, region)>>}]
           ELSE LET client == <<region, reg.initialized[region] + 1>>
                IN  reg' = [reg EXCEPT
                       !.mu = 0, !.at[c] = "idle", !.region[c] = "",
                       !.initialized[region] = @ + 1,
                       !.clients = { e \in @ : e[1] # region } \cup {<<region, client>>},
                       !.returned = @ \cup {<<region, client>>}]
    /\ UNCHANGED regRest

RegistryNext ==
    \/ \E c \in Callers, region \in Regions : GetFastPath(c, region)
    \/ \E c \in Callers : GetLocks(c)
    \/ \E c \in Callers : GetSlowPath(c)

RegistrySpec == RegistryInit /\ [][RegistryNext]_vars

\* ------------------------------------------------------------ properties

\* Worker w has read its ASG and finished both blocks of scaleASG.
Decided(w) == pc[w] = "done" /\ reading[w] # NoReading

\* The capacities worker w passed to UpdateASGCapacity in this tick.
Targets(w) == { writes[w][k].target : k \in 1..Len(writes[w]) }

\* A pending (running) job carries one of the tags of worker w's ASG.
PendingMatch(w) ==
    \E k \in 1..Len(cfg[w].Tags) : state.PendingJobsWithTags[cfg[w].Tags[k]] > 0

RunningMatch(w) ==
    \E k \in 1..Len(cfg[w].Tags) : state.RunningJobsWithTags[cfg[w].Tags[k]] > 0

\* The collector counted pending (running) jobs without tags in this tick.
PendingUntagged == agg.totalPendingWithoutTags > 0

RunningUntagged == agg.totalRunningWithoutTags > 0

\* The minimum target of the ASG: 0 if scale_to_zero, else 1.
Floor(asg) == IF asg.ScaleToZero THEN 0 ELSE 1

\* pending_for, running_for: the jobs per tag, summed over the ASG's own tags.
PendingFor(w) == SumOverTags(cfg[w].Tags, state.PendingJobsWithTags)

RunningFor(w) == SumOverTags(cfg[w].Tags, state.RunningJobsWithTags)

Max(x, y) == IF x > y THEN x ELSE y

Min(x, y) == IF x < y THEN x ELSE y

\* free and additional as the scale-up rule states them: only the running
\* jobs of the ASG's own tags occupy its instances.
FreeFor(w) == Max(0, reading[w].allocated - RunningFor(w))

AdditionalFor(w) == Max(0, PendingFor(w) - FreeFor(w))

ProposedFor(w) == Min(reading[w].desired + AdditionalFor(w), cfg[w].MaxAsgCapacity)

\* C1: every write the reconciler issues carries a target t with
\* 0 <= t <= asg.max_capacity, on the scale-up and on the scale-down branch
\* (stated for the ASGs that have tags: C3 is about the others).
C1_TargetWithinMax ==
    \A w \in Workers :
        cfg[w].Tags # <<>> =>
            \A t \in Targets(w) : 0 <= t /\ t <= cfg[w].MaxAsgCapacity

\* C2: every write for an ASG with scale_to_zero = false has target >= 1,
\* and every write for an ASG with scale_to_zero = true has target >= 0.
C2_FloorRespected ==
    \A w \in Workers : \A t \in Targets(w) :
        t >= (IF cfg[w].ScaleToZero THEN 0 ELSE 1)

\* C2 witness: an ASG that must not scale to zero was written down to 1.
C2_Witness ==
    \E w \in Workers :
        /\ cfg[w].Tags # <<>>
        /\ ~cfg[w].ScaleToZero
        /\ Len(writes[w]) = 1
        /\ writes[w][1].branch = "down"
        /\ writes[w][1].target = 1

\* C3: an ASG whose tag set is empty is skipped for the tick: no provider
\* write is issued for it.
C3_EmptyTagsNoWrite ==
    \A w \in Workers : cfg[w].Tags = <<>> => writes[w] = <<>>

\* C4: if no pending or running job matches a tag of the ASG and no untagged
\* job is pending or running, no write has a target above the desired size
\* just read (stated for the ASGs that have tags).
C4_IdleNeverIncreases ==
    \A w \in Workers :
        ( /\ Decided(w)
          /\ cfg[w].Tags # <<>>
          /\ ~PendingMatch(w) /\ ~RunningMatch(w)
          /\ ~PendingUntagged /\ ~RunningUntagged )
        => \A t \in Targets(w) : t <= reading[w].desired

\* The decision of scaleASG as one function: does it call the provider, and
\* the target it leaves the ASG with.
PlanCalls(asg, rd, st) == ScaleUpCalls(asg, rd, st) \/ ScaleDownCalls(asg, rd, st)

PlanTarget(asg, rd, st) ==
    IF ScaleUpCalls(asg, rd, st) THEN proposed(asg, rd, st)
    ELSE IF ScaleDownCalls(asg, rd, st) THEN newCapacity(rd)
    ELSE rd.desired

\* C5: the planner is idempotent: if the decision yields target T, the
\* decision on the same cluster state and the reading (allocated, T) yields T
\* again and issues no write (stated for the ASGs that have tags).
C5_PlannerIdempotent ==
    \A w \in Workers :
        (Decided(w) /\ cfg[w].Tags # <<>>) =>
            LET T     == PlanTarget(cfg[w], reading[w], state)
                again == [allocated |-> reading[w].allocated, desired |-> T]
            IN  /\ PlanTarget(cfg[w], again, state) = T
                /\ ~PlanCalls(cfg[w], again, state)

\* C6: when a pending job carries a tag of the ASG, the worker issues
\* write(proposed) exactly when additional > 0 and allocated < proposed, with
\* free = max(0, allocated - running_for) counted over the ASG's own tags
\* only, and otherwise issues no write.
C6_ScaleUpRule ==
    \A w \in Workers :
        (Decided(w) /\ PendingMatch(w)) =>
            IF AdditionalFor(w) > 0 /\ reading[w].allocated < ProposedFor(w)
            THEN Len(writes[w]) = 1 /\ writes[w][1].target = ProposedFor(w)
            ELSE writes[w] = <<>>

\* C7: while a pending or running job carries one of the ASG's tags, no
\* write has a target below the desired size just read, and when the free
\* slots cover the pending jobs no write is issued at all.
C7_NoScaleDownWhileMatching ==
    \A w \in Workers :
        (Decided(w) /\ (PendingMatch(w) \/ RunningMatch(w))) =>
            /\ \A t \in Targets(w) : t >= reading[w].desired
            /\ PendingFor(w) <= FreeFor(w) => writes[w] = <<>>

\* C8: when the tick is over, an ASG for which rule 1 made no change, with
\* untagged pending jobs and total_pending + total_running above the sum of
\* the allocated counts, was written desired + 1 (capped at max_capacity);
\* stated for the ASGs that have tags and are below max_capacity.
C8_UntaggedScaleUp ==
    \A w \in Workers :
        ( /\ \A v \in Workers : Decided(v)
          /\ cfg[w].Tags # <<>>
          /\ ~PendingMatch(w)
          /\ PendingUntagged
          /\ state.TotalPendingJobs + state.TotalRunningJobs > totalCapacity
          /\ reading[w].desired < cfg[w].MaxAsgCapacity )
        => reading[w].desired + 1 \in Targets(w)

\* C9: in a tick with untagged pending or running jobs no ASG receives a
\* scale-down write (stated for the ASGs that have tags).
C9_UntaggedBlocksScaleDown ==
    (PendingUntagged \/ RunningUntagged) =>
        \A w \in Workers :
            cfg[w].Tags # <<>> =>
                \A k \in 1..Len(writes[w]) : writes[w][k].branch # "down"

C11_WriteOnlyIfTargetDiffers ==
    \A w \in Workers :
        cfg[w].Tags # <<>> =>
            \A t \in Targets(w) : t # reading[w].desired

\* C12: when FetchProjects returns an error, Run returns at once: no worker is
\* started, nothing is read from or written to the provider, and main is back
\* in its select, where the next tick calls Run again.
C12_FetchProjectsErrorAbortsTick ==
    [][ RunFetchProjectsFails =>
            /\ phase' = "idle"
            /\ cloud' = cloud
            /\ \A w \in Workers :
                  /\ pc'[w] = "start"
                  /\ reading'[w] = NoReading
                  /\ writes'[w] = <<>> ]_vars

\* C12 witness: a Run was aborted, main is back in its select, and the next
\* tick has fired since and is waiting to be received.
C12_Witness ==
    /\ lastRun = "aborted"
    /\ phase = "idle"
    /\ \A w \in Workers : pc[w] = "start" /\ writes[w] = <<>>
    /\ tickC = <<"idle">>

\* C13: in a tick in which the job requests of every project ended in an
\* error (the tick collects one project), no ASG write is issued; stated for
\* the ASGs that have tags.
C13_ExhaustedCollectorNoWrite ==
    (phase = "scaling" /\ agg.errs > 0) =>
        \A w \in Workers : cfg[w].Tags # <<>> => writes[w] = <<>>

\* The allocated count worker w has added to the shared total.
AllocatedAdded(w) ==
    IF pc[w] \in {"up", "down", "done"} /\ reading[w] # NoReading
    THEN reading[w].allocated ELSE 0

RECURSIVE SumAllocatedAdded(_)
SumAllocatedAdded(n) ==
    IF n = 0 THEN 0 ELSE AllocatedAdded(n) + SumAllocatedAdded(n - 1)

\* C14: a worker whose GetCurrentCapacity failed issues no write and adds
\* nothing to the shared total, which is the sum of the allocated counts of
\* the workers whose read succeeded; every other worker writes exactly what
\* its own reading and the cluster state decide.
C14_ReadErrorContributesNothing ==
    /\ \A w \in Workers :
          (pc[w] = "done" /\ reading[w] = NoReading) => writes[w] = <<>>
    /\ totalCapacity = SumAllocatedAdded(Len(cfg))
    /\ \A v \in Workers :
          Decided(v) => (writes[v] # <<>> <=> PlanCalls(cfg[v], reading[v], state))

\* C14 witness: one worker's read failed, the other one read, added its
\* allocated count to the total and wrote.
C14_Witness ==
    \E w \in Workers, v \in Workers :
        /\ w # v
        /\ pc[w] = "done" /\ reading[w] = NoReading
        /\ Decided(v) /\ writes[v] # <<>>
        /\ reading[v].allocated > 0
        /\ totalCapacity = reading[v].allocated

\* C15: a failed write is only logged: it is not repeated in the tick (a
\* worker calls the provider at most once), it leaves the ASG as it was read,
\* every other worker still writes what its own decision says, and between
\* ticks no reading is kept, so the next tick reads afresh.
C15_WriteErrorOnlyLogged ==
    /\ \A w \in Workers :
          /\ Len(writes[w]) <= 1
          /\ (Len(writes[w]) = 1 /\ ~writes[w][1].ok) =>
                reading[w] = GetCurrentCapacity(cfg[w].Name)
    /\ \A v \in Workers :
          Decided(v) =>
              IF PlanCalls(cfg[v], reading[v], state)
              THEN Targets(v) = {PlanTarget(cfg[v], reading[v], state)}
              ELSE writes[v] = <<>>
    /\ phase = "idle" => \A w \in Workers : reading[w] = NoReading

\* C15 witness: one worker's write failed, the other worker's write succeeded
\* in the same tick.
C15_Witness ==
    \E w \in Workers, v \in Workers :
        /\ w # v
        /\ Len(writes[w]) = 1 /\ ~writes[w][1].ok
        /\ Decided(v)
        /\ Len(writes[v]) = 1 /\ writes[v][1].ok

\* C16: at most one reconciliation is in progress: ScaleASGs returns only
\* when every worker has finished, and main calls Run only when no worker of
\* an earlier Run is still reading or writing.
C16_OneReconciliationAtATime ==
    [][ /\ (phase = "scaling" /\ phase' = "idle") =>
              \A w \in Workers : pc[w] = "done"
        /\ ((phase = "idle" /\ phase' = "scaling") \/ RunFetchProjectsFails) =>
              /\ lastRun # "running"
              /\ \A w \in Workers : pc[w] = "start" ]_vars

\* C16 witness: a reconciliation of two workers has returned, and the tick
\* that fired while it ran is waiting.
C16_Witness ==
    /\ lastRun = "completed"
    /\ phase = "idle"
    /\ Len(cfg) = 2
    /\ tickC = <<"scaling">>

\* C17: a tick that fired while a reconciliation was running is dropped: the
\* tick on which main calls Run never is one that fired during a Run.
C17_TickDuringRunDropped ==
    [][ (tickC # <<>> /\ tickC' = <<>>) => Head(tickC) = "idle" ]_vars

\* The answers the call has received so far.
Seen == SubSeq(fetch.server, 1, fetch.requests)

Is429(resp) == ~resp.err /\ resp.status = 429

\* Only a 429 is followed by another request, and the call ends as its last
\* answer says; ok200 is the result after a 200.
ClassifiedWith(ok200(_)) ==
    /\ \A k \in 1..(fetch.requests - 1) : Is429(Seen[k])
    /\ fetch.requests > 0 =>
          LET last == Seen[fetch.requests]
          IN  IF last.err THEN fetch.result = ErrTransport
              ELSE IF last.status = 429
                   THEN /\ fetch.result \in {Running, ErrAttempts}
                        /\ Len(fetch.slept) = fetch.requests
              ELSE IF last.status = 200 THEN fetch.result = ok200(last)
              ELSE fetch.result = [kind |-> "status error", status |-> last.status]

AlwaysOk(resp) == Ok

OkIfDecodes(resp) == IF resp.decodes THEN Ok ELSE ErrDecode

\* C18 (as claimed): for the project listing and the jobs request alike, a
\* 429 is retried after a sleep, any other non-200 status ends the call at
\* once with an error carrying the status, a transport error ends it at once,
\* and a 200 response ends the call successfully.
C18_ResponseClassification ==
    fetch.endpoint \in Endpoints => ClassifiedWith(AlwaysOk)

\* C18 (amended): as above, but a 200 response ends the call successfully
\* when its body decodes, and with the decoding error when it does not; in
\* both cases without a further request.
C18_ResponseClassificationDecoded ==
    fetch.endpoint \in Endpoints => ClassifiedWith(OkIfDecodes)

\* C18 witness: two 429 answers were retried, the third answer, a 500, ended
\* the call with the status.
C18_Witness ==
    /\ fetch.endpoint = "jobs"
    /\ fetch.requests = 3
    /\ Is429(Seen[1]) /\ Is429(Seen[2])
    /\ fetch.slept = <<2, 4>>
    /\ fetch.result = [kind |-> "status error", status |-> 500]

\* C19: a call makes at most 5 requests; the k-th 429 in a row is followed by
\* a sleep of 2, 4, 8, 16, 32 seconds; after 5 answers of 429 the call returns
\* the exhaustion error, and it returns it in no other case.
C19_AtMostFiveAttempts ==
    fetch.endpoint \in Endpoints =>
        /\ fetch.requests <= 5
        /\ fetch.slept = SubSeq(<<2, 4, 8, 16, 32>>, 1, Len(fetch.slept))
        /\ Len(fetch.slept) = Cardinality({k \in 1..fetch.requests : Is429(Seen[k])})
        /\ fetch.result = ErrAttempts =>
              /\ fetch.requests = 5
              /\ \A k \in 1..5 : Is429(Seen[k])
        /\ (fetch.requests = 5 /\ \A k \in 1..5 : Is429(Seen[k])) =>
              fetch.result \in {Running, ErrAttempts}
        /\ fetch.result = Running => fetch.attempt = fetch.requests

\* C19 witness: five answers of 429, five sleeps, the exhaustion error.
C19_Witness ==
    /\ fetch.endpoint = "projects"
    /\ fetch.requests = 5
    /\ fetch.slept = <<2, 4, 8, 16, 32>>
    /\ fetch.result = ErrAttempts

\* Both jobs requests of the project succeeded.
Fetched(p) == ~p.pendingErr /\ ~p.runningErr

\* The number of times tag t occurs in the tag lists of the jobs (a job
\* carries at most two tags).
TagCount(jobs, t) ==
    Cardinality({ kj \in (1..Len(jobs)) \X (1..2) :
                    kj[2] <= Len(jobs[kj[1]]) /\ jobs[kj[1]][kj[2]] = t })

\* What project p should add to a counter: nothing unless both requests
\* succeeded.
Share(p, counter, t) ==
    IF ~Fetched(p) THEN 0
    ELSE CASE counter = "pending" -> Len(p.pendingJobs)
           [] counter = "running" -> Len(p.runningJobs)
           [] counter = "pendingTag" -> TagCount(p.pendingJobs, t)
           [] counter = "runningTag" -> TagCount(p.runningJobs, t)

RECURSIVE Shares(_, _, _)
Shares(n, counter, t) ==
    IF n = 0 THEN 0
    ELSE Share(collect.projects[n], counter, t) + Shares(n - 1, counter, t)

\* C20: a project whose pending or running request failed adds nothing to the
\* totals and the tag maps, not even the pending jobs it had already fetched;
\* every other project adds exactly its own jobs, whatever failed elsewhere
\* and in whatever order the results arrive.
C20_FailedProjectSkipped ==
    collect.done =>
        LET n == Len(collect.projects)
        IN  /\ collect.out.totalPending = Shares(n, "pending", "a")
            /\ collect.out.totalRunning = Shares(n, "running", "a")
            /\ \A t \in Tags :
                  /\ collect.out.pendingJobsWithTags[t] = Shares(n, "pendingTag", t)
                  /\ collect.out.runningJobsWithTags[t] = Shares(n, "runningTag", t)
            /\ collect.out.errs =
                  Cardinality({ i \in 1..n : ~Fetched(collect.projects[i]) })

\* C20 witness: the running request of one project failed after its pending
\* job was fetched, another project was fetched in full, and the total is the
\* pending job of the latter only.
C20_Witness ==
    /\ collect.done
    /\ \E i, j \in 1..Len(collect.projects) :
          /\ collect.projects[i].runningErr /\ ~collect.projects[i].pendingErr
          /\ Len(collect.projects[i].pendingJobs) = 1
          /\ Fetched(collect.projects[j])
          /\ Len(collect.projects[j].pendingJobs) = 1
    /\ collect.out.totalPending = 1
    /\ collect.out.errs = 1

\* The sum of f over the projects 1..n handed to the collector.
RECURSIVE SumFetched(_, _, _)
SumFetched(n, what, t) ==
    IF n = 0 THEN 0
    ELSE LET p == collect.projects[n]
             own == IF p.pendingErr \/ p.runningErr THEN 0
                    ELSE CASE what = "pending jobs" -> Len(p.pendingJobs)
                           [] what = "running jobs" -> Len(p.runningJobs)
                           [] what = "pending tag" -> TagCount(p.pendingJobs, t)
                           [] what = "running tag" -> TagCount(p.runningJobs, t)
         IN  own + SumFetched(n - 1, what, t)

\* C21: the ClusterState returned has, over the projects fetched
\* successfully, TotalPendingJobs = the number of pending jobs,
\* TotalRunningJobs = the number of running jobs, and per tag the number of
\* occurrences of the tag in the pending / running jobs (a job with two tags
\* counts once for each), in whatever order the project workers complete.
C21_ClusterStateSums ==
    collect.done =>
        LET n  == Len(collect.projects)
            cs == ClusterStateOf(collect.out)
        IN  /\ cs.TotalPendingJobs = SumFetched(n, "pending jobs", "a")
            /\ cs.TotalRunningJobs = SumFetched(n, "running jobs", "a")
            /\ \A t \in Tags :
                  /\ cs.PendingJobsWithTags[t] = SumFetched(n, "pending tag", t)
                  /\ cs.RunningJobsWithTags[t] = SumFetched(n, "running tag", t)

\* C21 witness: two projects with a pending job tagged "a" each, one of them
\* tagged "b" as well, reported in the order opposite to the listing.
C21_Witness ==
    /\ collect.done
    /\ Len(collect.results) = 2
    /\ collect.results[1].id = 2
    /\ collect.results[1].pendingTags = <<"a", "b">>
    /\ collect.results[2].pendingTags = <<"a">>
    /\ ClusterStateOf(collect.out).PendingJobsWithTags["a"] = 2
    /\ ClusterStateOf(collect.out).PendingJobsWithTags["b"] = 1
    /\ ClusterStateOf(collect.out).TotalPendingJobs = 2

\* C22: in every cluster state the collector produces, the tag counts sum to
\* at least the jobs not counted as untagged, for pending and for running.
C22_TagSumCoversTaggedJobs ==
    collect.done =>
        /\ SumOverTags(<<"a", "b">>, collect.out.pendingJobsWithTags)
              >= collect.out.totalPending - collect.out.totalPendingWithoutTags
        /\ SumOverTags(<<"a", "b">>, collect.out.runningJobsWithTags)
              >= collect.out.totalRunning - collect.out.totalRunningWithoutTags

\* The listing with the jobs of every excluded project taken away.
EmptiedListing ==
    [i \in 1..Len(collect.listing) |->
        IF collect.listing[i].Name \in { collect.exclude[k] : k \in 1..Len(collect.exclude) }
        THEN ProjectResult(<<>>, <<>>, FALSE, FALSE)
        ELSE ProjectResult(collect.listing[i].pendingJobs, collect.listing[i].runningJobs,
                           collect.listing[i].pendingErr, collect.listing[i].runningErr)]

\* C23: excluding a project gives the counters and the ClusterState that the
\* same group gives when that project is not excluded and has no pending and
\* no running jobs, whatever the other projects are.
C23_ExcludedIsEmpty ==
    collect.done =>
        /\ collect.out = AggregateAll(EmptyAgg, EmptiedListing)
        /\ ClusterStateOf(collect.out) = CalculateClusterState(EmptiedListing)

\* C23 witness: an excluded project with jobs, and a project with a pending
\* job that was collected.
C23_Witness ==
    /\ collect.done
    /\ collect.exclude = <<"p1">>
    /\ Len(collect.listing) = 2
    /\ Len(collect.listing[1].pendingJobs) > 0
    /\ ~collect.listing[1].pendingErr /\ ~collect.listing[1].runningErr
    /\ Len(collect.projects) = 1
    /\ collect.out.totalPending = 1
    /\ collect.out.errs = 0

\* A call of UpdateASGCapacity is made in this step.
Wrote == aws'.calls = aws.calls + 1 /\ aws'.ret.op = "write"

\* The sizes the AWS API holds for the group.
RemoteSizes(a) == <<a.MinSize, a.MaxSize, a.DesiredCapacity>>

\* C24: UpdateASGCapacity with a negative capacity returns the validation
\* error, issues no UpdateAutoScalingGroup call and leaves the group's min,
\* max and desired sizes as they were.
C24_NegativeTargetRejected ==
    [][ (Wrote /\ Less64(aws'.ret.capacity, Int64(0))) =>
            /\ aws'.ret.err = "cannot set capacity below 0"
            /\ ~aws'.ret.issued
            /\ aws'.updates = aws.updates
            /\ RemoteSizes(aws') = RemoteSizes(aws) ]_vars

\* C24 witness: a write of -1 to an existing group was rejected after a
\* write of 1 had been made.
C24_Witness ==
    /\ aws.exists
    /\ aws.calls = 2
    /\ aws.ret.op = "write"
    /\ aws.ret.capacity = Int64(-1)
    /\ aws.ret.err = "cannot set capacity below 0"
    /\ aws.updates = <<[MinSize |-> 1, MaxSize |-> 1, DesiredCapacity |-> 1]>>
    /\ RemoteSizes(aws) = <<1, 1, <<1>>>>

\* C25: UpdateASGCapacity with a capacity >= 0 issues exactly one
\* UpdateAutoScalingGroup call, with MinSize = MaxSize = DesiredCapacity =
\* the capacity; a successful write of the capacity the group was
\* successfully set to before leaves the group's sizes as they are.
C25_WriteSetsAllThreeToTarget ==
    [][ (Wrote /\ ~Less64(aws'.ret.capacity, Int64(0))) =>
            LET target == aws'.ret.capacity
            IN  /\ Len(aws'.updates) = Len(aws.updates) + 1
                /\ SubSeq(aws'.updates, 1, Len(aws.updates)) = aws.updates
                /\ LET input == aws'.updates[Len(aws'.updates)]
                   IN  /\ Int64(input.MinSize) = target
                       /\ Int64(input.MaxSize) = target
                       /\ Int64(input.DesiredCapacity) = target
                /\ (aws'.ret.err = "nil" /\ aws.ret.op = "write" /\ aws.ret.err = "nil"
                        /\ aws.ret.capacity = target)
                     => RemoteSizes(aws') = RemoteSizes(aws) ]_vars

\* C26: a successful GetCurrentCapacity returns as allocated the number of
\* instances in InService, Pending, Pending:Wait or Pending:Proceed and as
\* desired the group's desired capacity (0 when it reports none), both >= 0;
\* for a group that does not exist it returns an error.
C26_ReadCountsAllocatedStates ==
    aws.ret.op = "read" =>
        /\ ~aws.exists => aws.ret.err # "nil"
        /\ aws.ret.err = "nil" =>
              /\ aws.exists
              /\ aws.ret.allocated =
                    Cardinality({ i \in 1..Len(aws.Instances) :
                        aws.Instances[i] \in
                            {"InService", "Pending", "Pending:Wait", "Pending:Proceed"} })
              /\ aws.ret.desired =
                    (IF aws.DesiredCapacity = <<>> THEN 0 ELSE aws.DesiredCapacity[1])
              /\ aws.ret.allocated >= 0
              /\ aws.ret.desired >= 0

\* C26 witness: a group with one instance pending in a lifecycle hook and one
\* terminating was read as 1 allocated, with the desired capacity a write
\* had set before.
C26_Witness ==
    /\ aws.ret.op = "read"
    /\ aws.ret.err = "nil"
    /\ aws.Instances = <<"Pending:Wait", "Terminating">>
    /\ aws.ret.allocated = 1
    /\ aws.updates # <<>>
    /\ aws.ret.desired = 2

\* The running configuration, the provider map and the ASG-to-provider
\* mapping.
Installed == <<sig.cfg, sig.providers, sig.asgToProvider>>

\* The reload attempt cannot succeed: the file does not load, the
\* configuration is not valid, or its providers cannot be built.
Defective(try) ==
    \/ try.file = <<>>
    \/ LET c == try.file[1]
           used == { pr \in c.Providers : pr.AsgNames # <<>> }
       IN  \/ c.CheckInterval < 1
           \/ c.Token = ""
           \/ c.Group = ""
           \/ \E pr \in c.Providers : \E i \in 1..Len(pr.AsgNames) :
                 pr.AsgNames[i].Name = "" \/ pr.AsgNames[i].MaxAsgCapacity < 0
           \/ \E pr \in used : pr.name \notin {"aws", "AWS"}
           \/ used # {} /\ ~try.clientOk

\* C27: from the moment a reload has read a file that does not load, does
\* not validate or whose providers cannot be built, the running
\* configuration, the provider map and the ASG-to-provider mapping stay as
\* they are.
C27_FailedReloadChangesNothing ==
    [][ (sig'.attempt # <<>> /\ Defective(sig'.attempt[1])) => Installed' = Installed ]_vars

\* C27 witness: after a reload that installed the second configuration, a
\* reload found a configuration without a token and left the second one
\* installed.
C27_Witness ==
    /\ sig.last = "validation failed"
    /\ sig.attempt # <<>>
    /\ sig.attempt[1].file # <<>>
    /\ sig.attempt[1].file[1].Token = ""
    /\ sig.cfg # GoodConfig
    /\ sig.asgToProvider = {<<"asg2", "AWS">>}
    /\ sig.providers = {<<"AWS", "us-east-1">>}

\* The signal goroutine takes a SIGHUP from sigCh in this step.
HupHandled == sig.sigCh = <<"SIGHUP">> /\ sig'.sigCh = <<>>

\* C28: a SIGHUP handled less than one second after the last reload began
\* is discarded, with no reload and nothing installed; two reloads begin at
\* least one second apart.
C28_ReloadDebounced ==
    [][ /\ (HupHandled /\ sig.lastReload # <<>> /\ sig.now - sig.lastReload[1] < 1000) =>
              /\ sig'.handler = "select"
              /\ sig'.lastReload = sig.lastReload
              /\ sig'.attempt = sig.attempt
              /\ Installed' = Installed
        /\ (sig'.handler = "reload" /\ sig.handler # "reload" /\ sig.lastReload # <<>>) =>
              sig'.lastReload[1] - sig.lastReload[1] >= 1000 ]_vars

\* C28 witness: a SIGHUP was discarded half a second after a reload that
\* installed the second configuration had begun.
C28_Witness ==
    /\ sig.last = "suppressed"
    /\ sig.lastReload # <<>>
    /\ sig.now - sig.lastReload[1] = 500
    /\ sig.attempt # <<>>
    /\ sig.attempt[1].file = <<sig.cfg>>
    /\ sig.cfg # GoodConfig

\* C29: what one call of core.Run reads of the configuration, the provider
\* map and the ASG-to-provider mapping belongs to one configuration: the maps
\* its workers read are the ones built from the cfg it was called with.
C29_ReloadInstalledAtomically ==
    LET built == buildProvidersFromConfig(sig.run.cfg[1], TRUE)
    IN  /\ sig.run.asgToProvider # <<>> => sig.run.asgToProvider[1] = built.asgToProvider
        /\ sig.run.providers # <<>> => sig.run.providers[1] = built.providers

\* C30: once SIGINT or SIGTERM has been sent to the process, ctx is
\* eventually cancelled and main eventually returns.
C30_ShutdownEventually ==
    sig.termSent ~> (sig.ctx = "cancelled" /\ sig.main = "exited")

\* C31: once ctx is cancelled main starts no further reconciliation: from
\* then on no step takes main into core.Run, even with a tick waiting in
\* ticker.C.
C31_NoRunAfterCancel ==
    [][ sig.ctx = "cancelled" => ~(sig.main # "running" /\ sig'.main = "running") ]_vars

\* C32: every provider call a worker makes for an ASG whose entry names a
\* region goes through a client of that region, not of the provider's
\* default region.
C32_AsgRegionOverrides ==
    \A k \in 1..Len(sig.run.calls) :
        sig.run.asg[1].Region # "" => sig.run.calls[k].region = sig.run.asg[1].Region

\* C37: a worker that has run scaleASG to its end has made exactly one
\* provider read, first, and after it at most one provider write.
C37_OneReadThenAtMostOneWrite ==
    sig.run.providers # <<>> =>
        /\ Len(sig.run.calls) \in {1, 2}
        /\ sig.run.calls[1].op = "read"
        /\ Len(sig.run.calls) = 2 => sig.run.calls[2].op = "write"

\* C33: under every interleaving of the callers of Get, InitializeAWS is
\* called at most once per region, the map holds that client from then on,
\* and every call for the region returns it.
C33_OneClientPerRegion ==
    \A r \in Regions :
        /\ reg.initialized[r] <= 1
        /\ Exists(reg.clients, r) <=> reg.initialized[r] = 1
        /\ \A e \in reg.clients : e[1] = r => e[2] = <<r, 1>>
        /\ \A e \in reg.returned : e[1] = r => e[2] = <<r, 1>>

\* C33 witness: two callers missed the same region on the fast path; one has
\* made the client and returned it, the other holds the write lock now.
C33_Witness ==
    /\ reg.at[2] = "locked"
    /\ reg.region[2] = "eu-west-1"
    /\ reg.initialized["eu-west-1"] = 1
    /\ <<"eu-west-1", <<"eu-west-1", 1>>>> \in reg.returned

\* Every worker of the tick has returned: wg.Wait() is about to return.
AllWorkersDone == phase = "scaling" /\ \A w \in Workers : pc[w] = "done"

\* The workers whose provider read succeeded.
ReadOk == { w \in Workers : reading[w] # NoReading }

RECURSIVE SumAllocated(_)
SumAllocated(ws) ==
    IF ws = {} THEN 0
    ELSE LET w == CHOOSE x \in ws : TRUE
         IN  reading[w].allocated + SumAllocated(ws \ {w})

\* C34: when ScaleASGs returns, the shared total is the sum of allocated over
\* exactly the ASGs whose read succeeded, whatever the order the workers ran
\* in; and it is 0 when the workers of a tick start.
C34_TotalIsSumOfReads ==
    /\ AllWorkersDone => totalCapacity = SumAllocated(ReadOk)
    /\ (phase = "scaling" /\ \A w \in Workers : pc[w] = "read") => totalCapacity = 0

\* C34 witness: two workers read 1 and 2 allocated instances, both added,
\* and ScaleASGs is about to return with a total of 3.
C34_Witness ==
    /\ AllWorkersDone
    /\ Len(cfg) = 2
    /\ ReadOk = {1, 2}
    /\ reading[1].allocated = 1
    /\ reading[2].allocated = 2
    /\ totalCapacity = 3

\* The decision of worker w from its own reading and the cluster state only.
OwnAdditional(w) ==
    PendingFor(w) - Max(0, reading[w].allocated - state.TotalRunningJobs)

OwnProposed(w) == Min(reading[w].desired + OwnAdditional(w), cfg[w].MaxAsgCapacity)

OwnWrites(w) ==
    IF /\ state.TotalPendingJobs + state.TotalRunningJobs > 0
       /\ PendingMatch(w)
       /\ OwnAdditional(w) > 0
       /\ reading[w].allocated < OwnProposed(w)
    THEN {<<cfg[w].Name, "up", OwnProposed(w)>>}
    ELSE IF /\ ~PendingMatch(w) /\ ~RunningMatch(w)
            /\ reading[w].allocated - 1 >= Floor(cfg[w])
    THEN {<<cfg[w].Name, "down", reading[w].allocated - 1>>}
    ELSE {}

\* The (ASG, branch, target) writes of the tick.
WriteSet ==
    UNION { { <<cfg[w].Name, writes[w][k].branch, writes[w][k].target>> :
                k \in 1..Len(writes[w]) } : w \in Workers }

\* C35: the set of (ASG, target) writes of a tick does not depend on the
\* order the workers run in: when all have returned it is what each worker's
\* own reading and the cluster state decide, and until a worker writes, its
\* reading is what the provider holds for its ASG, whatever the others wrote.
C35_WritesOrderIndependent ==
    /\ AllWorkersDone => WriteSet = UNION { OwnWrites(w) : w \in ReadOk }
    /\ \A w \in Workers :
          pc[w] \in {"add", "up"} => reading[w] = GetCurrentCapacity(cfg[w].Name)

\* C35 witness: in one tick a worker scaled its ASG down and the other one
\* scaled its ASG up, each from a reading with allocated instances.
C35_Witness ==
    /\ AllWorkersDone
    /\ Len(cfg) = 2
    /\ Len(writes[1]) = 1 /\ writes[1][1].branch = "down"
    /\ Len(writes[2]) = 1 /\ writes[2][1].branch = "up"
    /\ reading[1].allocated > 0
    /\ reading[2].allocated > 0

Occurrences(t) == Cardinality({ k \in 1..Len(calc.asg.Tags) : calc.asg.Tags[k] = t })

\* C36: Calculate returns the pending jobs per tag summed over the tags of
\* the ASG; it returns the same after the pending jobs of a tag the ASG does
\* not serve, or the running jobs of any tag, have changed; and it returns 0
\* when no tag of the ASG has pending jobs.
C36_CalculateSumsPendingOfOwnTags ==
    calc.ret # <<>> =>
        /\ calc.ret[1] = Occurrences("a") * calc.state.PendingJobsWithTags["a"]
                         + Occurrences("b") * calc.state.PendingJobsWithTags["b"]
                         + Occurrences("c") * calc.state.PendingJobsWithTags["c"]
        /\ calc.before # <<>> => calc.ret = calc.before
        /\ (\A k \in 1..Len(calc.asg.Tags) :
              calc.state.PendingJobsWithTags[calc.asg.Tags[k]] = 0) => calc.ret[1] = 0

\* C36 witness: an ASG with tags a and b, 2 pending jobs of a, 1 of b and
\* pending jobs of c, with running jobs of a: Calculate returned 3, as it
\* had before the other jobs changed.
C36_Witness ==
    /\ calc.asg.Tags = <<"a", "b">>
    /\ calc.state.PendingJobsWithTags = [t \in CalcTags |-> IF t = "b" THEN 1 ELSE 2]
    /\ calc.state.RunningJobsWithTags["a"] = 1
    /\ calc.before = <<3>>
    /\ calc.ret = <<3>>

\* C39: whatever configuration a reload installs, the ticker of main has
\* the period of the check_interval of the configuration loaded at startup.
C39_TickerKeepsStartupInterval ==
    sig.ticker # <<>> => sig.ticker[1].period = GoodConfig.CheckInterval

\* No goroutine of CalculateClusterState is blocked for good: a project that
\* has not reported finds room in the results channel; a project reports at
\* most once; the loop runs over one result per project.
CollectNeverBlocks ==
    /\ (collect.fetched /\ ~collect.done) =>
          \A i \in 1..Len(collect.projects) :
              i \notin Reported => Len(collect.results) < Len(collect.projects)
    /\ Len(collect.results) = Cardinality(Reported)
    /\ Len(collect.results) <= Len(collect.projects)
    /\ collect.done =>
          /\ Reported = 1..Len(collect.projects)
          /\ collect.out = AggregateAll(EmptyAgg, collect.results)

\* C40: CalculateClusterState never deadlocks and terminates once every
\* fetch has returned: each project sends exactly one result, no send finds
\* the channel full, the channel is closed and read only after every project
\* has sent, and the loop consumes one result per project.
C40_CollectTerminates == []CollectNeverBlocks /\ <>collect.done

\* C40 witness: three projects, one of which failed, have each sent one
\* result, and CalculateClusterState has returned.
C40_Witness ==
    /\ collect.done
    /\ Len(collect.projects) = 3
    /\ Len(collect.results) = 3
    /\ collect.out.errs = 1

====
